---- MODULE Spec2Model ----
(***************************************************************************)
(* A model of brimr_downloader.py: the filename sanitizer and classifier  *)
(* (pure functions over character sequences), and the download            *)
(* orchestrator: the UI thread's handlers, the worker thread running      *)
(* _download_years, the completion watcher and the browser's asynchronous *)
(* transfers into the staging directory.                                  *)
(*                                                                         *)
(* A Python str is modelled as a sequence of one-character strings.       *)
(***************************************************************************)
EXTENDS Integers, Sequences, FiniteSets, TLC

(***************************************************************************)
(* Bounds of the model.                                                    *)
(***************************************************************************)
\* the longest filename of the classifier's input set, in tokens
MaxTokens == 3

\* the runs (worker threads) of one behaviour when no call raises
MaxRuns == 2

\* the runs of one behaviour when every call may raise
MaxFaultyRuns == 1

\* the years the UI offers
MaxYears == 2

\* the document links of a year's page
MaxFiles == 2

\* the polls of the completion watcher before its timeout:
\* DOWNLOAD_TIMEOUT / DOWNLOAD_CHECK_INTERVAL, scaled down
MaxPolls == 1

\* the "Cancelling..." events that may wait in the queue at once
MaxCancels == 1

(***************************************************************************)
(* Python str operations used by the source.                               *)
(***************************************************************************)
AsciiUpper ==
  <<"A","B","C","D","E","F","G","H","I","J","K","L","M",
    "N","O","P","Q","R","S","T","U","V","W","X","Y","Z">>

AsciiLower ==
  <<"a","b","c","d","e","f","g","h","i","j","k","l","m",
    "n","o","p","q","r","s","t","u","v","w","x","y","z">>

\* one character of str.lower()
LowerChar(c) ==
  IF \E k \in 1..26 : AsciiUpper[k] = c
  THEN AsciiLower[CHOOSE k \in 1..26 : AsciiUpper[k] = c]
  ELSE c

\* str.lower()
str_lower(s) == [k \in 1..Len(s) |-> LowerChar(s[k])]

\* s.replace(ch, ""): every occurrence of the character removed
str_remove(s, ch) ==
  LET Keep(c) == c # ch IN SelectSeq(s, Keep)

\* s.replace(ch, new): every occurrence of the character replaced
str_replace(s, ch, new) == [k \in 1..Len(s) |-> IF s[k] = ch THEN new ELSE s[k]]

\* sub in s
str_in(sub, s) ==
  \E k \in 1..(Len(s) - Len(sub) + 1) : SubSeq(s, k, k + Len(sub) - 1) = sub

\* s.split(ch, 1)[0]: the text before the first occurrence of ch
str_before(s, ch) ==
  IF \E k \in 1..Len(s) : s[k] = ch
  THEN SubSeq(s, 1, (CHOOSE k \in 1..Len(s) :
                        s[k] = ch /\ \A j \in 1..(k-1) : s[j] # ch) - 1)
  ELSE s

\* the characters str.strip() removes (ASCII whitespace the inputs use)
Whitespace == {" ", "\t"}

\* s.strip(chars): the characters of the set removed from both ends
str_strip(s, chars) ==
  LET keep == {k \in 1..Len(s) : s[k] \notin chars}
  IN IF keep = {} THEN <<>>
     ELSE SubSeq(s, CHOOSE k \in keep : \A j \in keep : k <= j,
                    CHOOSE k \in keep : \A j \in keep : k >= j)

\* any(tag in s for tag in tags)
any_in(tags, s) == \E k \in 1..Len(tags) : str_in(tags[k], s)

(***************************************************************************)
(* FILE_CATEGORIES, in the order of the dict literal.                      *)
(***************************************************************************)
FILE_CATEGORIES ==
  <<
    [category |-> "01_Source_Data", patterns |-> <<
       <<"w","o","r","l","d","w","i","d","e">>,
       <<"w","o","r","l","d","w","i","d","e","b","r","i","m","r">>,
       <<"b","r","i","m","r","w","o","r","l","d","w","i","d","e">>,
       <<"a","l","l","o","r","g","s">>,
       <<"m","e","d","i","c","a","l","s","c","h","o","o","l","s","o","n","l","y">>,
       <<"m","e","d","i","c","a","l","s","c","h","o","o","l","s">>,
       <<"c","o","n","t","r","a","c","t","s">>,
       <<"s","o","m","c","o","n","t","r","a","c","t","s">>,
       <<"w","o","r","l","d","w","i","d","e","c","o","n","t","r","a","c","t","s","o","n","l","y">>
    >>],
    [category |-> "02_School_Rankings", patterns |-> <<
       <<"s","c","h","o","o","l","o","f","m","e","d","i","c","i","n","e">>,
       <<"s","c","h","o","o","l","o","f","d","e","n","t","i","s","t","r","y">>,
       <<"d","e","n","t","i","s","t","r","y">>,
       <<"s","c","h","o","o","l","o","f","n","u","r","s","i","n","g">>,
       <<"n","u","r","s","i","n","g">>,
       <<"s","c","h","o","o","l","o","f","p","u","b","l","i","c","h","e","a","l","t","h">>,
       <<"s","c","h","o","o","l","o","f","p","h","a","r","m","a","c","y">>,
       <<"p","h","a","r","m","a","c","y">>,
       <<"s","c","h","o","o","l","o","f","v","e","t","e","r","i","n","a","r","y","m","e","d","i","c","i","n","e">>,
       <<"s","c","h","o","o","l","o","f","v","e","r","t","e","r","i","n","a","r","y","m","e","d","i","c","i","n","e">>,
       <<"s","c","h","o","o","l","s","o","f","v","e","t","e","r","i","n","a","r","y","m","e","d","i","c","i","n","e">>,
       <<"v","e","t","e","r","i","n","a","r","y","m","e","d","i","c","i","n","e">>,
       <<"s","c","h","o","o","l","o","f","o","s","t","e","o","p","a","t","h","i","c","m","e","d","i","c","i","n","e">>,
       <<"s","c","h","o","o","l","o","f","a","l","l","i","e","d","h","e","a","l","t","h">>,
       <<"h","o","s","p","i","t","a","l","s">>,
       <<"o","t","h","e","r","h","e","a","l","t","h","p","r","o","f","e","s","s","i","o","n","s">>
    >>],
    [category |-> "03_Department_Summaries", patterns |-> <<
       <<"b","y","d","e","p","a","r","t","m","e","n","t">>,
       <<"b","y","d","e","p","a","r","t","m","e","n","t","r">>,
       <<"a","w","a","r","d","s","b","y","d","e","p","a","r","t","m","e","n","t">>,
       <<"m","e","d","i","c","a","l","s","c","h","o","o","l","s","a","n","d","t","h","e","i","r","d","e","p","a","r","t","m","e","n","t","s">>,
       <<"m","e","d","i","c","a","l","s","c","h","o","o","l","s","a","n","d","d","e","p","t">>,
       <<"m","e","d","i","c","a","l","s","c","h","o","o","l","a","n","d","d","e","p","t">>,
       <<"m","a","s","t","e","r","t","e","m","p","l","a","t","e","n","i","h","a","w","a","r","d","s">>,
       <<"m","a","s","t","e","r","t","e","m","p","l","a","t","e","n","i","h","a","w","a","r","d","s","r">>
    >>],
    [category |-> "04_Basic_Science", patterns |-> <<
       <<"a","n","a","t","o","m","y","c","e","l","l","b","i","o","l">>,
       <<"a","n","a","t","o","m","y","c","e","l","l","b","i","o","l","o","g","y">>,
       <<"a","n","a","t","o","m","y","c","e","l","l","b","i","o","l","o","g","y","r">>,
       <<"b","i","o","c","h","e","m","i","s","t","r","y">>,
       <<"b","i","o","c","h","e","m","i","s","t","r","y","r">>,
       <<"b","i","o","m","e","d","i","c","a","l","e","n","g","i","n","e","e","r","i","n","g">>,
       <<"g","e","n","e","t","i","c","s">>,
       <<"g","e","n","e","t","i","c","s","r">>,
       <<"m","i","c","r","o","b","i","o","l","o","g","y">>,
       <<"m","i","c","r","o","b","i","o","l","o","g","y","r">>,
       <<"n","e","u","r","o","s","c","i","e","n","c","e","s">>,
       <<"n","e","u","r","o","s","c","i","e","n","c","e","s","r">>,
       <<"p","h","a","r","m","a","c","o","l","o","g","y">>,
       <<"p","h","a","r","m","a","c","o","l","o","g","y","r">>,
       <<"p","h","y","s","i","o","l","o","g","y">>,
       <<"p","h","y","s","i","o","l","o","g","y","r">>,
       <<"o","t","h","e","r","b","a","s","i","c","s","c","i","e","n","c","e","s">>
    >>],
    [category |-> "05_Clinical_Depts", patterns |-> <<
       <<"a","n","e","s","t","h","e","s","i","o","l","o","g","y">>,
       <<"a","n","e","s","t","h","e","s","i","o","l","o","g","y","r">>,
       <<"d","e","r","m","a","t","o","l","o","g","y">>,
       <<"d","e","r","m","a","t","o","l","o","g","y","r">>,
       <<"e","m","e","r","g","e","n","c","y","m","e","d","i","c","i","n","e">>,
       <<"e","m","e","r","g","e","n","c","y","m","e","d","i","c","i","n","e","r">>,
       <<"f","a","m","i","l","y","m","e","d","i","c","i","n","e">>,
       <<"f","a","m","i","l","y","m","e","d","i","c","i","n","e","r">>,
       <<"m","e","d","i","c","i","n","e">>,
       <<"m","e","d","i","c","i","n","e","r">>,
       <<"n","e","u","r","o","l","o","g","y">>,
       <<"n","e","u","r","o","l","o","g","y","r">>,
       <<"n","e","u","r","o","l","o","g","y","x","l","s">>,
       <<"n","e","u","r","o","s","u","r","g","e","r","y">>,
       <<"n","e","u","r","o","s","u","r","g","e","r","y","r">>,
       <<"n","u","t","r","i","t","i","o","n">>,
       <<"o","b","g","y","n">>,
       <<"o","b","g","y","n","r">>,
       <<"o","b","s","t","e","t","r","i","c","s">>,
       <<"o","b","s","t","e","t","r","i","c","s","a","n","d","g","y","n","e","c","o","l","o","g","y">>,
       <<"o","b","s","t","e","t","r","i","c","s","g","y","n","e","c","o","l","o","g","y">>,
       <<"o","p","h","t","h","a","l","m","o","l","o","g","y">>,
       <<"o","p","h","t","h","a","l","m","o","l","o","g","y","r">>,
       <<"o","r","t","h","o","p","e","d","i","c","s">>,
       <<"o","r","t","h","o","p","e","d","i","c","s","r">>,
       <<"e","n","t">>,
       <<"o","t","o","l","a","r","y","n","g","o","l","o","g","y">>,
       <<"o","t","o","l","a","r","y","n","g","o","l","o","g","y","r">>,
       <<"p","a","t","h","o","l","o","g","y">>,
       <<"p","a","t","h","o","l","o","g","y","r">>,
       <<"p","e","d","i","a","t","r","i","c","s">>,
       <<"p","e","d","i","a","t","r","i","c","s","r">>,
       <<"p","h","y","s","i","c","a","l","m","e">>,
       <<"p","h","y","s","i","c","a","l","m","e","d">>,
       <<"p","h","y","s","i","c","a","l","m","e","d","i","c","i","n","e">>,
       <<"p","h","y","s","i","c","a","l","m","e","d","i","c","i","n","e","r">>,
       <<"p","s","y","c","h","i","a","t","r","y">>,
       <<"p","s","y","c","h","i","a","t","r","y","r">>,
       <<"p","u","b","l","i","c","h","e","a","l","t","h">>,
       <<"p","u","b","l","i","c","h","e","a","l","t","h","r">>,
       <<"r","a","d","i","o","l","o","g","y">>,
       <<"r","a","d","i","o","l","o","g","y","r">>,
       <<"s","u","r","g","e","r","y">>,
       <<"s","u","r","g","e","r","y","r">>,
       <<"u","r","o","l","o","g","y">>,
       <<"u","r","o","l","o","g","y","r">>,
       <<"o","t","h","e","r","c","l","i","n","i","c","a","l","s","c","i","e","n","c","e","s">>
    >>],
    [category |-> "06_PI_Rankings", patterns |-> <<
       <<"p","i">>,
       <<"a","l","l","p","i","s">>,
       <<"p","i","s","b","y","r","a","n","k">>,
       <<"p","r","i","n","c","i","p","a","l","i","n","v","e","s","t","i","g","a","t","o","r">>,
       <<"a","l","l","o","r","g","d","e","p","t","p","i">>,
       <<"d","e","p","t","o","r","g","p","i">>,
       <<"d","e","p","t","s","c","h","o","o","l","p","i">>,
       <<"d","e","p","t","s","c","h","o","o","l","p","i","r">>,
       <<"s","c","h","o","o","l","d","e","p","t","p","i">>,
       <<"c","o","n","t","r","a","c","t","s","p","i">>,
       <<"a","n","a","t","o","m","y","c","e","l","l","b","i","o","l","p","i">>,
       <<"a","n","a","t","o","m","y","c","e","l","l","b","i","o","l","o","g","y","p","i">>,
       <<"b","i","o","c","h","e","m","i","s","t","r","y","p","i">>,
       <<"b","i","o","m","e","d","i","c","a","l","e","n","g","i","n","e","e","r","i","n","g","p","i">>,
       <<"g","e","n","e","t","i","c","s","p","i">>,
       <<"m","i","c","r","o","b","i","o","l","o","g","y","p","i">>,
       <<"n","e","u","r","o","s","c","i","e","n","c","e","s","p","i">>,
       <<"p","h","a","r","m","a","c","o","l","o","g","y","p","i">>,
       <<"p","h","a","r","m","a","c","o","l","o","g","y","p","i","r">>,
       <<"p","h","y","s","i","o","l","o","g","y","p","i">>,
       <<"p","h","y","s","i","o","l","o","g","y","p","i","2","x","l","s">>,
       <<"p","h","y","s","i","o","l","o","g","y","p","i","r">>,
       <<"a","n","e","s","t","h","e","s","i","o","l","o","g","y","p","i">>,
       <<"d","e","r","m","a","t","o","l","o","g","y","p","i">>,
       <<"e","m","e","r","g","e","n","c","y","m","e","d","i","c","i","n","e","p","i">>,
       <<"f","a","m","i","l","y","m","e","d","i","c","i","n","e","p","i">>,
       <<"m","e","d","i","c","i","n","e","p","i">>,
       <<"n","e","u","r","o","l","o","g","y","p","i">>,
       <<"n","e","u","r","o","s","u","r","g","e","r","y","p","i">>,
       <<"n","e","u","r","o","s","u","r","g","e","r","y","p","i","r">>,
       <<"o","b","g","y","n","p","i">>,
       <<"o","b","g","y","n","p","i","r">>,
       <<"o","b","s","t","e","t","r","i","c","s","p","i">>,
       <<"o","b","s","t","e","t","r","i","c","s","a","n","d","g","y","n","e","c","o","l","o","g","y","p","i">>,
       <<"o","b","s","t","e","t","r","i","c","s","g","y","n","e","c","o","l","o","g","y","p","i">>,
       <<"o","p","h","t","h","a","l","m","o","l","o","g","y","p","i">>,
       <<"o","p","h","t","h","a","l","m","o","l","o","g","y","p","i","r">>,
       <<"o","r","t","h","o","p","e","d","i","c","s","p","i">>,
       <<"o","r","t","h","o","p","e","d","i","c","s","p","i","r">>,
       <<"o","t","o","l","a","r","y","n","g","o","l","o","g","y","p","i">>,
       <<"o","t","o","l","a","r","y","n","g","o","l","o","g","y","p","i","r">>,
       <<"p","a","t","h","o","l","o","g","y","p","i">>,
       <<"p","a","t","h","o","l","o","g","y","p","i","r">>,
       <<"p","e","d","i","a","t","r","i","c","s","p","i">>,
       <<"p","e","d","i","a","t","r","i","c","s","p","i","r">>,
       <<"p","h","y","s","i","c","a","l","m","e","d","i","c","i","n","e","p","i">>,
       <<"p","h","y","s","i","c","a","l","m","e","d","i","c","i","n","e","p","i","r">>,
       <<"p","s","y","c","h","i","a","t","r","y","p","i">>,
       <<"p","s","y","c","h","i","a","t","r","y","p","i","r">>,
       <<"p","u","b","l","i","c","h","e","a","l","t","h","p","i">>,
       <<"p","u","b","l","i","c","h","e","a","l","t","h","p","i","r">>,
       <<"r","a","d","i","o","l","o","g","y","p","i">>,
       <<"r","a","d","i","o","l","o","g","y","p","i","r">>,
       <<"s","u","r","g","e","r","y","p","i">>,
       <<"s","u","r","g","e","r","y","p","i","r">>,
       <<"s","u","r","g","e","r","y","p","i","b","c","o","r","r","e","c","t","e">>,
       <<"u","r","o","l","o","g","y","p","i">>,
       <<"u","r","o","l","o","g","y","p","i","r">>
    >>],
    [category |-> "07_Geographic", patterns |-> <<
       <<"s","t","a","t","e">>,
       <<"s","t","a","t","e","s","a","n","d","c","o","u","n","t","r","i","e","s">>,
       <<"c","i","t","y">>,
       <<"a","l","l","c","i","t","i","e","s">>,
       <<"c","i","t","i","e","s","b","y","r","a","n","k","r">>,
       <<"i","n","s","t","i","t","u","t","i","o","n">>,
       <<"a","l","l","i","n","s","t","i","t","u","t","i","o","n","s">>,
       <<"a","l","l","i","n","s","t","i","t","u","t","i","o","n","s","r">>,
       <<"o","r","g","a","n","i","z","a","t","i","o","n">>,
       <<"f","u","n","d","i","n","g","r","a","n","k","b","y","s","t","a","t","e">>,
       <<"p","e","r","c","a","p","i","t","a","f","u","n","d","i","n","g","b","y","s","t","a","t","e">>,
       <<"p","e","r","c","a","p","i","t","a","f","u","n","d","i","n","g","r","a","n","k","b","y","s","t","a","t","e">>
    >>],
    [category |-> "08_Other", patterns |-> <<
       <<"t","o","p","t","e","n">>,
       <<"t","o","p","t","e","n","r">>,
       <<"c","o","v","i","d","a","w","a","r","d","s">>,
       <<"c","o","v","i","d">>,
       <<"m","e","r","i","t">>,
       <<"n","i","h","m","e","r","i","t">>
    >>]
  >>

PI_RANKINGS == "06_PI_Rankings"

UNCATEGORIZED == "09_Uncategorized"

\* the markers tested against the lowercased raw name (line 328)
RawPiTags ==
  << <<"_","p","i","_">>, <<"_","p","i",".">>, <<"p","i","_","2">>,
     <<"c","o","n","t","r","a","c","t","s","p","i">> >>

\* the tokens tested against the normalized name (line 331)
NormPiTags ==
  << <<"a","l","l","o","r","g","d","e","p","t","p","i">>,
     <<"d","e","p","t","s","c","h","o","o","l","p","i">>,
     <<"s","c","h","o","o","l","d","e","p","t","p","i">> >>

\* a classifier that compared the name as written, without lower()
RawNameKeepsCase(filename) == filename

\* raw = filename.lower()

RawName(filename) == str_lower(filename)

\* norm = raw.replace("-", "").replace("_", "")
NormName(raw) == str_remove(str_remove(raw, "-"), "_")

\* the (pattern, category) pairs of one category, in table order
RECURSIVE CategoryPairs(_, _, _)
CategoryPairs(cat, pats, k) ==
  IF k > Len(pats) THEN <<>>
  ELSE << [pattern |-> NormName(pats[k]), category |-> cat] >>
       \o CategoryPairs(cat, pats, k + 1)

\* a pattern list that leaves no category out
RECURSIVE EveryCategoryPatterns(_)
EveryCategoryPatterns(c) ==
  IF c > Len(FILE_CATEGORIES) THEN <<>>
  ELSE CategoryPairs(FILE_CATEGORIES[c].category, FILE_CATEGORIES[c].patterns, 1)
       \o EveryCategoryPatterns(c + 1)

\* all_patterns before the sort: every category but 06_PI_Rankings
RECURSIVE UnsortedPatterns(_)
UnsortedPatterns(c) ==
  IF c > Len(FILE_CATEGORIES) THEN <<>>
  ELSE (IF FILE_CATEGORIES[c].category = PI_RANKINGS THEN <<>>
        ELSE CategoryPairs(FILE_CATEGORIES[c].category,
                           FILE_CATEGORIES[c].patterns, 1))
       \o UnsortedPatterns(c + 1)

\* a list left in table order
KeepTableOrder(pairs, n) == pairs

\* list.sort(key=len, reverse=True): stable, longest pattern first
RECURSIVE SortByLengthDesc(_, _)
SortByLengthDesc(pairs, n) ==
  IF n = 0 THEN <<>>
  ELSE LET HasLen(p) == Len(p.pattern) = n
       IN SelectSeq(pairs, HasLen) \o SortByLengthDesc(pairs, n - 1)

LongestPattern(pairs) ==
  CHOOSE n \in 0..64 :
    /\ \A k \in 1..Len(pairs) : Len(pairs[k].pattern) <= n
    /\ n = 0 \/ \E k \in 1..Len(pairs) : Len(pairs[k].pattern) = n

all_patterns ==
  SortByLengthDesc(UnsortedPatterns(1), LongestPattern(UnsortedPatterns(1)))

\* the loop of lines 347-351: the first pattern found in norm decides
FirstMatch(norm) ==
  LET hits == {k \in 1..Len(all_patterns) : str_in(all_patterns[k].pattern, norm)}
  IN IF hits = {} THEN UNCATEGORIZED
     ELSE all_patterns[CHOOSE k \in hits : \A j \in hits : k <= j].category

\* the PI test of lines 326-332
IsPiFile(raw, norm) ==
  /\ str_in(<<"p","i">>, norm)
  /\ \/ any_in(RawPiTags, raw)
     \/ any_in(NormPiTags, norm)

\* a classifier that tried the department patterns before the PI test
CategorizeDepartmentFirst(filename) ==
  LET raw  == RawName(filename)
      norm == NormName(raw)
  IN IF FirstMatch(norm) # UNCATEGORIZED THEN FirstMatch(norm)
     ELSE IF IsPiFile(raw, norm) THEN PI_RANKINGS ELSE UNCATEGORIZED

categorize_file(filename) ==
  LET raw  == RawName(filename)
      norm == NormName(raw)
  IN IF IsPiFile(raw, norm) THEN PI_RANKINGS ELSE FirstMatch(norm)

\* the characters sanitize_filename replaces
InvalidChars == <<"<", ">", ":", "\"", "/", "\\", "|", "?", "*">>

RECURSIVE ReplaceInvalid(_, _)
ReplaceInvalid(s, k) ==
  IF k > Len(InvalidChars) THEN s
  ELSE ReplaceInvalid(str_replace(s, InvalidChars[k], "_"), k + 1)

sanitize_filename(filename) ==
  str_strip(str_strip(ReplaceInvalid(str_before(filename, "?"), 1), Whitespace), {"."})

(***************************************************************************)
(* The filenames the classifier is checked on: concatenations of tokens.   *)
(***************************************************************************)
Tokens ==
  { <<"B","I","O","C","H","E","M","I","S","T","R","Y">>,
    <<"M","e","d","i","c","i","n","e">>,
    <<"-","P","I">>,
    <<"_","P","I">>,
    <<"p","i">>,
    <<"_">>,
    <<"-">>,
    <<".","x","l","s","x">>,
    <<"2">>,
    <<"d","e","p","t">>,
    <<"S","c","h","o","o","l","D","e","p","t">>,
    <<"P","h","a","r","m","a","c","y">> }

VariantTokens ==
  { <<"M","e","d","i","c","i","n","e">>,
    <<"_","P","I">>,
    <<"p","i">>,
    <<"2">>,
    <<".","x","l","s">> }

RECURSIVE Concatenations(_, _)
Concatenations(tokens, n) ==
  IF n = 0 THEN { <<>> }
  ELSE LET shorter == Concatenations(tokens, n - 1)
       IN shorter \cup { s \o t : s \in shorter, t \in tokens }

Names == Concatenations(Tokens, MaxTokens) \ { <<>> }

VariantNames == Concatenations(VariantTokens, MaxTokens) \ { <<>> }

(***************************************************************************)
(* The orchestrator's world: years, the links of a year's page, paths.     *)
(***************************************************************************)
\* the worker threads a behaviour may start, one per accepted run
Workers == 1..MaxRuns

\* the years the UI offers
Years == 1..MaxYears

\* the decoded base names of the document URLs a page may link to:
\* unquote(Path(urlparse(file_url).path).name) of line 899
UrlNames ==
  << <<"M","e","d","i","c","i","n","e","_","P","I",".","x","l","s","x">>,
     <<"A","l","l","O","r","g","s",".","x","l","s">>,
     <<"d","e","p","t",".","x","l","s">>,
     <<"S","u","r","g","e","r","y",".","x","l","s","x">> >>

\* lines 899-903 for every URL, a URL being the index of its name:
\* filename and category
TaskNames ==
  [url \in 1..Len(UrlNames) |->
     LET name == sanitize_filename(UrlNames[url])
     IN [filename |-> name, category |-> categorize_file(name)]]

\* final_path = year_folder / category / filename
final_path(year, url) ==
  LET t == TaskNames[((url - 1) % Len(UrlNames)) + 1]
  IN <<year, t.category, t.filename>>

\* the first n URLs, in page order
RECURSIVE FirstUrls(_)
FirstUrls(n) == IF n = 0 THEN <<>> ELSE FirstUrls(n - 1) \o <<n>>

\* the href lists find_elements may return for a page: up to MaxFiles
\* links, the first link possibly repeated further down the page
PageLinks ==
  { FirstUrls(n) : n \in 0..MaxFiles }
    \cup { FirstUrls(n) \o <<1>> : n \in 1..MaxFiles }

\* list(dict.fromkeys(excel_urls)): first occurrences, in order
RECURSIVE dict_fromkeys(_)
dict_fromkeys(urls) ==
  IF urls = <<>> THEN <<>>
  ELSE LET front == dict_fromkeys(SubSeq(urls, 1, Len(urls) - 1))
           last  == urls[Len(urls)]
       IN IF \E k \in 1..Len(front) : front[k] = last
          THEN front ELSE Append(front, last)

\* _get_selected_years: the ticked years in the order of year_vars, which
\* is the order detect_available_years returns, newest year first
RECURSIVE get_selected_years(_)
get_selected_years(ticked) ==
  IF ticked = {} THEN <<>>
  ELSE LET newest == CHOOSE y \in ticked : \A z \in ticked : z <= y
       IN <<newest>> \o get_selected_years(ticked \ {newest})

\* a loop over the years as they were passed to the thread
KeepOrder(years) == years

\* sorted(years): the least of the list, then the rest sorted
RECURSIVE sorted(_)
sorted(years) ==
  IF years = <<>> THEN <<>>
  ELSE LET k == CHOOSE k \in 1..Len(years) :
                  \A j \in 1..Len(years) : years[k] <= years[j]
       IN <<years[k]>>
            \o sorted(SubSeq(years, 1, k - 1) \o SubSeq(years, k + 1, Len(years)))

(***************************************************************************)
(* State.                                                                  *)
(***************************************************************************)
VARIABLES
  \* the classifier's run on one name (lines 899-901)
  raw_name,          \* the URL's decoded base name
  filename,          \* sanitize_filename(raw_name)
  category,          \* categorize_file(filename)
  variant,           \* a second name, differing from raw_name by one edit
  variant_category,  \* categorize_file(variant)
  step,              \* how far the run on the name has come
  \* detect_available_years, run on its own
  site,              \* what the site answers to HEAD and to GET, per year
  probe,             \* the locals of detect_available_years
  \* the link collection of one year's page (lines 853-876), run on its own
  page,              \* the href of each anchor of the page, in document order
  listing,           \* the locals `links` and `excel_urls`
  \* BRIMRDownloaderApp
  is_downloading,    \* self.is_downloading
  cancel_event,      \* self.cancel_event is set
  ui_queue,          \* self.ui_queue: the events not yet applied
  status_label,      \* the status message the UI shows
  download_btn,      \* the download button is enabled
  cancel_btn,        \* the cancel button is enabled
  started,           \* how many worker threads have been started
  last_request,      \* how the last _start_download call ended
  ui_pc,             \* where the UI thread is inside _cancel_download
  \* one record per worker thread: the locals of _download_years
  run,
  \* the world outside the process
  final_files,       \* the final paths that exist
  temp_dir_exists,   \* output_folder/_temp_downloads exists
  temp_files,        \* its files, oldest modification first
  sessions           \* the workers whose Chrome session is alive

nameVars == <<raw_name, filename, category, variant, variant_category, step>>

probeVars == <<site, probe>>

linkVars == <<page, listing>>

sideVars == <<probeVars, linkVars>>

appVars == <<is_downloading, cancel_event, ui_queue, status_label,
             download_btn, cancel_btn, started, last_request, ui_pc>>

worldVars == <<final_files, temp_dir_exists, temp_files, sessions>>

vars == <<nameVars, sideVars, appVars, run, worldVars>>

NoName == <<>>

NoCategory == "none"

\* Path | None of the watcher's result: no file
None == [kind |-> "None", task |-> <<>>]


\* the locals of _download_years before the thread is started
NotStarted ==
  [pc |-> "not_started", years |-> <<>>, y |-> 0, excel_urls |-> <<>>, i |-> 0,
   downloaded |-> 0, skipped |-> 0, failed |-> 0, years_skipped |-> 0,
   cancelled |-> FALSE, driver |-> FALSE, downloaded_file |-> None,
   polls_left |-> 0]

\* a thread that has ended has no locals: how it ended is all that is left
Ended(how) == [NotStarted EXCEPT !.pc = how]

\* the orchestrator at rest: the state after BRIMRDownloaderApp.__init__
InitApp ==
  /\ is_downloading = FALSE
  /\ cancel_event = FALSE
  /\ ui_queue = <<>>
  /\ status_label = "Ready to download"
  /\ download_btn = TRUE
  /\ cancel_btn = FALSE
  /\ started = 0
  /\ last_request = "none"
  /\ ui_pc = "idle"
  /\ run = [w \in Workers |-> NotStarted]
  /\ temp_dir_exists = FALSE
  /\ temp_files = <<>>
  /\ sessions = {}

\* no name is being classified
InitNoName ==
  /\ raw_name = NoName
  /\ filename = NoName
  /\ category = NoCategory
  /\ variant = NoName
  /\ variant_category = NoCategory
  /\ step = "off"

\* detect_available_years and the link collection are not running
NoProbe == [pc |-> "off", current_year |-> 0, year |-> 0, years |-> {},
            sent |-> <<>>, result |-> <<>>]

NoListing == [pc |-> "off", links |-> <<>>, excel_urls |-> <<>>]

InitNoProbe ==
  /\ site = <<>>
  /\ probe = NoProbe

InitNoListing ==
  /\ page = <<>>
  /\ listing = NoListing

InitNoSide ==
  /\ InitNoProbe
  /\ InitNoListing

(***************************************************************************)
(* The UI thread: the event queue and the two button handlers.             *)
(***************************************************************************)
\* the closures _update_status, _update_progress, _set_buttons_state,
\* _show_info and _show_error put on the queue
StatusEvent(msg, detail) == [kind |-> "status", msg |-> msg, detail |-> detail]

ProgressEvent(value, maximum) ==
  [kind |-> "progress", msg |-> "", detail |-> <<value, maximum>>]

ButtonsEvent(downloading) == [kind |-> "buttons", msg |-> "", detail |-> downloading]

DialogEvent(kind) == [kind |-> kind, msg |-> "", detail |-> ""]

\* what fn(*args) of one event does to the widgets
ApplyEvent(ui, e) ==
  CASE e.kind = "status"  -> [ui EXCEPT !.status_label = e.msg]
    [] e.kind = "buttons" -> [ui EXCEPT !.download_btn = ~e.detail,
                                        !.cancel_btn = e.detail]
    [] OTHER -> ui

\* a drain that took the newest event first
RECURSIVE ApplyNewestFirst(_, _)
ApplyNewestFirst(ui, events) ==
  IF events = <<>> THEN ui
  ELSE ApplyNewestFirst(ApplyEvent(ui, events[Len(events)]),
                        SubSeq(events, 1, Len(events) - 1))

\* the widgets after fn(*args) of every queued event, first in first out
RECURSIVE ApplyEvents(_, _)
ApplyEvents(ui, events) ==
  IF events = <<>> THEN ui
  ELSE ApplyEvents(ApplyEvent(ui, Head(events)), Tail(events))

\* _drain_ui_queue: every queued event is applied, in queue order
drain_ui_queue ==
  /\ ui_pc = "idle"
  /\ ui_queue # <<>>
  /\ LET ui == ApplyEvents([status_label |-> status_label,
                            download_btn |-> download_btn,
                            cancel_btn |-> cancel_btn], ui_queue)
     IN /\ status_label' = ui.status_label
        /\ download_btn' = ui.download_btn
        /\ cancel_btn' = ui.cancel_btn
  /\ ui_queue' = <<>>
  /\ UNCHANGED <<is_downloading, cancel_event, started, last_request, ui_pc>>
  /\ UNCHANGED <<nameVars, sideVars, run, worldVars>>

\* a handler without the test of line 757
StartNeverRejected == FALSE

\* the test of line 757

StartRejected == is_downloading

\* lines 774-780: the run is marked active and its thread started;
\* a behaviour starts at most `limit` threads
AcceptStart(selected, limit) ==
  /\ started < limit
  /\ is_downloading' = TRUE
  /\ cancel_event' = FALSE
  /\ ui_queue' = Append(ui_queue, ButtonsEvent(TRUE))
  /\ started' = started + 1
  /\ run' = [run EXCEPT ![started + 1] =
               [NotStarted EXCEPT !.pc = "setup",
                                  !.years = get_selected_years(selected)]]
  /\ last_request' = "started"

\* line 758: the request is dropped
RejectStart ==
  /\ last_request' = "rejected"
  /\ UNCHANGED <<is_downloading, cancel_event, ui_queue, started, run>>

\* lines 755 and 769: nothing was ticked, or the dialog was answered No
AbandonStart ==
  UNCHANGED <<is_downloading, cancel_event, ui_queue, started, run,
              last_request>>

\* _start_download, with the years ticked and the answer to the dialog
start_download(selected, confirmed, limit) ==
  /\ ui_pc = "idle"
  /\ download_btn
  /\ IF selected = {} THEN AbandonStart
     ELSE IF StartRejected THEN RejectStart
     ELSE IF ~confirmed THEN AbandonStart
     ELSE AcceptStart(selected, limit)
  /\ UNCHANGED <<status_label, download_btn, cancel_btn, ui_pc>>
  /\ UNCHANGED <<nameVars, sideVars, worldVars>>

\* the "Cancelling..." events waiting in the queue
PendingCancels ==
  Cardinality({k \in 1..Len(ui_queue) : ui_queue[k].msg = "Cancelling..."})

\* _cancel_download, line 783: the handler reads is_downloading; the UI
\* thread is then inside the handler, and the worker thread runs on
cancel_download ==
  /\ ui_pc = "idle"
  /\ cancel_btn
  /\ PendingCancels < MaxCancels
  /\ ui_pc' = IF is_downloading THEN "set" ELSE "idle"
  /\ UNCHANGED <<is_downloading, cancel_event, ui_queue, status_label,
                 download_btn, cancel_btn, started, last_request>>
  /\ UNCHANGED <<nameVars, sideVars, run, worldVars>>

\* a handler that flips the flag at each request
cancel_toggles ==
  /\ ui_pc = "set"
  /\ cancel_event' = ~cancel_event
  /\ ui_pc' = "status"
  /\ UNCHANGED <<is_downloading, ui_queue, status_label, download_btn,
                 cancel_btn, started, last_request>>
  /\ UNCHANGED <<nameVars, sideVars, run, worldVars>>

\* _cancel_download, line 784: cancel_event.set()
cancel_set ==
  /\ ui_pc = "set"
  /\ cancel_event' = TRUE
  /\ ui_pc' = "status"
  /\ UNCHANGED <<is_downloading, ui_queue, status_label, download_btn,
                 cancel_btn, started, last_request>>
  /\ UNCHANGED <<nameVars, sideVars, run, worldVars>>

\* _cancel_download, line 785: _update_status("Cancelling...", ...)
cancel_status ==
  /\ ui_pc = "status"
  /\ ui_queue' = Append(ui_queue, StatusEvent("Cancelling...", ""))
  /\ ui_pc' = "idle"
  /\ UNCHANGED <<is_downloading, cancel_event, status_label, download_btn,
                 cancel_btn, started, last_request>>
  /\ UNCHANGED <<nameVars, sideVars, run, worldVars>>

(***************************************************************************)
(* The worker thread: _download_years, one action per step between two     *)
(* reads or writes of state another thread can see.                        *)
(***************************************************************************)
SetRun(w, r) == run' = [run EXCEPT ![w] = r]

Enqueue(events) == ui_queue' = ui_queue \o events

\* the year and the URL of the file task worker w is at
TaskYear(r) == sorted(r.years)[r.y]

TaskUrl(r) == r.excel_urls[r.i]

\* a worker whose failed file ends the run as a fatal error
FileFailedAborts(r) == [r EXCEPT !.failed = @ + 1, !.pc = "except"]

\* a failed file that is passed over without being counted
FileFailedUncounted(r) == [r EXCEPT !.i = @ + 1, !.pc = "file_loop"]

\* lines 947-955: the file counts as failed and the loop goes on
FileFailed(r) == [r EXCEPT !.failed = @ + 1, !.i = @ + 1, !.pc = "file_loop"]

\* a worker that never finds the final path
NeverExists(path) == FALSE

\* final_path.exists() of line 905

path_exists(path) == path \in final_files

\* lines 797-799: the output and staging directories are made, before the try
Setup(w, made) ==
  /\ run[w].pc = "setup"
  /\   IF made
       THEN /\ temp_dir_exists' = TRUE
            /\ Enqueue(<<StatusEvent("Starting Chrome browser...", "")>>)
            /\ SetRun(w, [run[w] EXCEPT !.pc = "create_driver"])
       ELSE \* mkdir raises: the exception leaves the thread
            /\ SetRun(w, Ended("died"))
            /\ UNCHANGED <<temp_dir_exists, ui_queue>>
  /\ UNCHANGED <<is_downloading, cancel_event, status_label, download_btn,
                 cancel_btn, started, last_request, ui_pc>>
  /\ UNCHANGED <<nameVars, sideVars, final_files, temp_files, sessions>>

\* lines 805-811: create_chrome_driver and the warm-up navigation
CreateDriver(w, outcome) ==
  /\ run[w].pc = "create_driver"
  /\   CASE outcome = "ready" ->
              /\ sessions' = sessions \cup {w}
              /\ SetRun(w, [run[w] EXCEPT !.driver = TRUE, !.y = 1, !.pc = "year_loop"])
         [] outcome = "no_session" ->
              \* line 403 or 404 raises: no browser was started
              /\ SetRun(w, [run[w] EXCEPT !.pc = "except"])
              /\ UNCHANGED sessions
         [] outcome = "cdp_failed" ->
              \* line 406 raises: the browser runs, create_chrome_driver
              \* does not return, driver stays None
              /\ sessions' = sessions \cup {w}
              /\ SetRun(w, [run[w] EXCEPT !.pc = "except"])
         [] outcome = "warmup_failed" ->
              \* line 810 raises: driver is bound
              /\ sessions' = sessions \cup {w}
              /\ SetRun(w, [run[w] EXCEPT !.driver = TRUE, !.pc = "except"])
  /\ UNCHANGED <<appVars, nameVars, sideVars, final_files, temp_dir_exists, temp_files>>

\* lines 813-816: the head of the year loop
YearLoop(w) ==
  /\ run[w].pc = "year_loop"
  /\ SetRun(w, IF run[w].y > Len(run[w].years)
               THEN [run[w] EXCEPT !.pc = "finally"]
               ELSE IF cancel_event
               THEN [run[w] EXCEPT !.cancelled = TRUE, !.pc = "finally"]
               ELSE [run[w] EXCEPT !.pc = "year_prep"])
  /\ UNCHANGED <<appVars, nameVars, sideVars, worldVars>>

\* lines 818-825: the year folder, set_download_directory, the status
YearPrep(w, ok) ==
  /\ run[w].pc = "year_prep"
  /\   IF ok
       THEN /\ temp_dir_exists' = TRUE
            /\ Enqueue(<<StatusEvent("Loading page...", "")>>)
            /\ SetRun(w, [run[w] EXCEPT !.pc = "load_page"])
       ELSE /\ SetRun(w, [run[w] EXCEPT !.pc = "except"])
            /\ UNCHANGED <<temp_dir_exists, ui_queue>>
  /\ UNCHANGED <<is_downloading, cancel_event, status_label, download_btn,
                 cancel_btn, started, last_request, ui_pc>>
  /\ UNCHANGED <<nameVars, sideVars, final_files, temp_files, sessions>>

\* a worker that passed a year without data and did not count it
YearSkippedUncounted(r) == [r EXCEPT !.y = @ + 1, !.pc = "year_loop"]

\* lines 848-850 and 883-885: one more year without data, on to the next
YearSkipped(r) ==
  [r EXCEPT !.years_skipped = @ + 1, !.y = @ + 1, !.pc = "year_loop"]

\* lines 827-851: the year's page is loaded, or the year is skipped
LoadPage(w, loaded) ==
  /\ run[w].pc = "load_page"
  /\   IF loaded
       THEN /\ SetRun(w, [run[w] EXCEPT !.pc = "find_links"])
            /\ UNCHANGED ui_queue
       ELSE /\ Enqueue(<<StatusEvent("Page failed to load", "")>>)
            /\ SetRun(w, YearSkipped(run[w]))
  /\ UNCHANGED <<is_downloading, cancel_event, status_label, download_btn,
                 cancel_btn, started, last_request, ui_pc>>
  /\ UNCHANGED <<nameVars, sideVars, worldVars>>

\* lines 853-892: the links of the page, filtered and de-duplicated
FindLinks(w, found, links) ==
  /\ run[w].pc = "find_links"
  /\ IF found
     THEN LET excel_urls == dict_fromkeys(links)
          IN IF excel_urls = <<>>
             THEN /\ Enqueue(<<StatusEvent("No Excel files found", "")>>)
                  /\ SetRun(w, YearSkipped(run[w]))
             ELSE /\ Enqueue(<<StatusEvent("Found files", "")>>)
                  /\ SetRun(w, [run[w] EXCEPT !.excel_urls = excel_urls, !.i = 1,
                                              !.pc = "file_loop"])
     ELSE \* find_elements or get_attribute raises
          /\ SetRun(w, [run[w] EXCEPT !.pc = "except"])
          /\ UNCHANGED ui_queue
  /\ UNCHANGED <<is_downloading, cancel_event, status_label, download_btn,
                 cancel_btn, started, last_request, ui_pc>>
  /\ UNCHANGED <<nameVars, sideVars, worldVars>>

\* lines 894-897 and 957-958: the head of the file loop
FileLoop(w) ==
  /\ run[w].pc = "file_loop"
  /\ SetRun(w, IF run[w].i > Len(run[w].excel_urls)
               THEN [run[w] EXCEPT !.y = @ + 1, !.pc = "year_loop"]
               ELSE IF cancel_event
               THEN [run[w] EXCEPT !.cancelled = TRUE, !.pc = "finally"]
               ELSE [run[w] EXCEPT !.pc = "file_check"])
  /\ UNCHANGED <<appVars, nameVars, sideVars, worldVars>>

\* lines 899-917: the final path; an existing file is skipped
FileCheck(w) ==
  /\ run[w].pc = "file_check"
  /\ LET r == run[w]
         n == Len(r.excel_urls)
     IN IF path_exists(final_path(TaskYear(r), TaskUrl(r)))
        THEN /\ Enqueue(<<StatusEvent("Exists", ""), ProgressEvent(r.i, n)>>)
             /\ SetRun(w, [r EXCEPT !.skipped = @ + 1, !.i = @ + 1, !.pc = "file_loop"])
        ELSE /\ Enqueue(<<StatusEvent("Downloading", ""), ProgressEvent(r.i, n)>>)
             /\ SetRun(w, [r EXCEPT !.pc = "clear"])
  /\ UNCHANGED <<is_downloading, cancel_event, status_label, download_btn,
                 cancel_btn, started, last_request, ui_pc>>
  /\ UNCHANGED <<nameVars, sideVars, worldVars>>

\* a file of the staging directory
StagedFile(kind, task) == [kind |-> kind, task |-> task]

\* the files left when unlink raised OSError for those at the positions kept
FilesAt(files, kept) ==
  LET RECURSIVE Pick(_)
      Pick(k) == IF k > Len(files) THEN <<>>
                 ELSE (IF k \in kept THEN <<files[k]>> ELSE <<>>) \o Pick(k + 1)
  IN Pick(1)

\* the positions of the files a live browser still writes: unlink may fail there
InUse(files) ==
  {k \in 1..Len(files) : files[k].kind = "crdownload" /\ files[k].task[1] \in sessions}

\* lines 920-924: the staging directory is emptied
ClearStaging(w, listed, kept) ==
  /\ run[w].pc = "clear"
  /\ kept \subseteq InUse(temp_files)
  /\   IF listed /\ temp_dir_exists
       THEN /\ temp_files' = FilesAt(temp_files, kept)
            /\ SetRun(w, [run[w] EXCEPT !.pc = "trigger"])
       ELSE \* temp_dir.iterdir() raises
            /\ SetRun(w, FileFailed(run[w]))
            /\ UNCHANGED temp_files
  /\ UNCHANGED <<appVars, nameVars, sideVars, final_files, temp_dir_exists, sessions>>

\* lines 926-927: driver.get(file_url) starts the transfer, which writes
\* its in-progress file into the staging directory
Trigger(w, ok) ==
  /\ run[w].pc = "trigger"
  /\   IF ok
       THEN /\ temp_files' =
                 IF temp_dir_exists
                 THEN Append(temp_files,
                        StagedFile("crdownload", <<w, TaskYear(run[w]), TaskUrl(run[w])>>))
                 ELSE temp_files
            /\ SetRun(w, [run[w] EXCEPT !.polls_left = MaxPolls, !.pc = "wait"])
       ELSE /\ SetRun(w, FileFailed(run[w]))
            /\ UNCHANGED temp_files
  /\ UNCHANGED <<appVars, nameVars, sideVars, final_files, temp_dir_exists, sessions>>

\* the files of the staging directory by suffix (lines 444-450)
TempFiles(files) ==
  LET IsTemp(f) == f.kind = "crdownload" IN SelectSeq(files, IsTemp)

ExcelFiles(files) ==
  LET IsExcel(f) == f.kind = "excel" IN SelectSeq(files, IsExcel)

\* a watcher that returned the file modified first
Oldest(files) == files[1]

\* max(excel_files, key=st_mtime): the file modified last
Newest(files) == files[Len(files)]

\* wait_for_download_complete returns
WatcherReturns(r, file) == [r EXCEPT !.downloaded_file = file, !.pc = "after_wait"]

\* time.sleep(DOWNLOAD_CHECK_INTERVAL): one interval nearer to end_time
WatcherSleeps(r) == [r EXCEPT !.polls_left = @ - 1]

\* lines 434-457: one iteration of the loop of wait_for_download_complete;
\* iterdir may raise (listed = FALSE), and so may f.stat() of line 453
\* (examined = FALSE), which no handler of the watcher catches: the
\* exception reaches the handler of lines 952-955
Poll(w, listed, examined) ==
  /\ run[w].pc = "wait"
  /\ LET r == run[w]
     IN IF r.polls_left = 0
        THEN SetRun(w, WatcherReturns(r, None))
        ELSE IF cancel_event
        THEN SetRun(w, WatcherReturns(r, None))
        ELSE   IF ~(listed /\ temp_dir_exists)
               THEN \* iterdir raises OSError
                    SetRun(w, WatcherSleeps(r))
               ELSE IF ExcelFiles(temp_files) # <<>> /\ TempFiles(temp_files) = <<>>
               THEN IF examined
                    THEN SetRun(w, WatcherReturns(r, Newest(ExcelFiles(temp_files))))
                    ELSE SetRun(w, FileFailed(r))
               ELSE SetRun(w, WatcherSleeps(r))
  /\ UNCHANGED <<appVars, nameVars, sideVars, worldVars>>

\* lines 933-935: the check after the watcher
AfterWait(w) ==
  /\ run[w].pc = "after_wait"
  /\ SetRun(w, IF cancel_event
               THEN [run[w] EXCEPT !.cancelled = TRUE, !.pc = "finally"]
               ELSE [run[w] EXCEPT !.pc = "place"])
  /\ UNCHANGED <<appVars, nameVars, sideVars, worldVars>>

\* f is still in the staging directory
InStaging(f) == \E k \in 1..Len(temp_files) : temp_files[k] = f

\* lines 937-955: the finished file is moved to its final path
Place(w, moved) ==
  /\ run[w].pc = "place"
  /\ LET r == run[w]
         f == r.downloaded_file
     IN IF f # None /\ InStaging(f)
        THEN   IF moved
               THEN /\ final_files' = final_files \cup {final_path(TaskYear(r), TaskUrl(r))}
                    /\ temp_files' = LET Other(g) == g # f IN SelectSeq(temp_files, Other)
                    /\ Enqueue(<<StatusEvent("Downloaded", "")>>)
                    /\ SetRun(w, [r EXCEPT !.downloaded = @ + 1, !.i = @ + 1,
                                           !.pc = "file_loop"])
               ELSE \* mkdir or shutil.move raises
                    /\ SetRun(w, FileFailed(r))
                    /\ UNCHANGED <<final_files, temp_files, ui_queue>>
        ELSE \* the watcher returned no file
             /\ SetRun(w, FileFailed(r))
             /\ UNCHANGED <<final_files, temp_files, ui_queue>>
  /\ UNCHANGED <<is_downloading, cancel_event, status_label, download_btn,
                 cancel_btn, started, last_request, ui_pc>>
  /\ UNCHANGED <<nameVars, sideVars, temp_dir_exists, sessions>>

\* lines 960-963: the handler of a fatal error
Except(w) ==
  /\ run[w].pc = "except"
  /\ Enqueue(<<DialogEvent("error")>>)
  /\ SetRun(w, [run[w] EXCEPT !.pc = "finally"])
  /\ UNCHANGED <<is_downloading, cancel_event, status_label, download_btn,
                 cancel_btn, started, last_request, ui_pc>>
  /\ UNCHANGED <<nameVars, sideVars, worldVars>>

\* a cleanup that marks the run inactive before the staging directory is
\* removed
QuitDriverAndReset(w) ==
  /\ run[w].pc = "finally"
  /\ sessions' = IF run[w].driver THEN sessions \ {w} ELSE sessions
  /\ is_downloading' = FALSE
  /\ SetRun(w, [run[w] EXCEPT !.pc = "rmtree"])
  /\ UNCHANGED <<cancel_event, ui_queue, status_label, download_btn,
                 cancel_btn, started, last_request, ui_pc>>
  /\ UNCHANGED <<nameVars, sideVars, final_files, temp_dir_exists, temp_files>>

\* lines 966-970: driver.quit(), when driver is bound
QuitDriver(w) ==
  /\ run[w].pc = "finally"
  /\ sessions' = IF run[w].driver THEN sessions \ {w} ELSE sessions
  /\ SetRun(w, [run[w] EXCEPT !.pc = "rmtree"])
  /\ UNCHANGED <<appVars, nameVars, sideVars, final_files, temp_dir_exists, temp_files>>

\* line 972: shutil.rmtree(temp_dir, ignore_errors=True)
RemoveStaging(w) ==
  /\ run[w].pc = "rmtree"
  /\ temp_dir_exists' = FALSE
  /\ temp_files' = <<>>
  /\ SetRun(w, [run[w] EXCEPT !.pc = "reset"])
  /\ UNCHANGED <<appVars, nameVars, sideVars, final_files, sessions>>

\* the summary of lines 976-979
Counters(r) == <<r.downloaded, r.skipped, r.failed, r.years_skipped>>

\* lines 981-994: the terminal events, by the local `cancelled`
TerminalEvents(r) ==
  IF r.cancelled
  THEN <<StatusEvent("Download cancelled", Counters(r)), DialogEvent("info")>>
  ELSE <<StatusEvent("Download complete!", Counters(r)), ProgressEvent(100, 100),
         DialogEvent("info")>>

\* lines 973-994: the run is no longer active, the buttons are reset and
\* the summary is reported.  One step: the summary is made of the thread's
\* locals, and no handler of the UI thread that can run in between writes
\* anything these lines read.
Finish(w) ==
  /\ run[w].pc = "reset"
  /\ is_downloading' = FALSE
  /\ Enqueue(<<ButtonsEvent(FALSE)>> \o TerminalEvents(run[w]))
  /\ SetRun(w, Ended("done"))
  /\ UNCHANGED <<cancel_event, status_label, download_btn, cancel_btn,
                 started, last_request, ui_pc>>
  /\ UNCHANGED <<nameVars, sideVars, worldVars>>

(***************************************************************************)
(* The browser: when the last byte of a transfer has arrived, its          *)
(* in-progress file is renamed to the finished document.                   *)
(***************************************************************************)
BrowserFinishes(k) ==
  /\ k \in InUse(temp_files)
  /\ temp_dir_exists
  /\ temp_files' = Append(FilesAt(temp_files, (1..Len(temp_files)) \ {k}),
                          StagedFile("excel", temp_files[k].task))
  /\ UNCHANGED <<appVars, nameVars, sideVars, run, final_files, temp_dir_exists, sessions>>

(***************************************************************************)
(* The orchestrator: the UI thread, the workers and the browser.           *)
(***************************************************************************)
Init ==
  /\ InitNoName
  /\ InitNoSide
  /\ InitApp
  /\ final_files = {}

\* what create_chrome_driver and the warm-up may come to
DriverOutcomes == {"ready", "no_session", "cdp_failed", "warmup_failed"}

\* a step of worker w, whatever the calls it makes come to
WorkerStep(w) ==
  \/ \E made \in BOOLEAN : Setup(w, made)
  \/ \E outcome \in DriverOutcomes : CreateDriver(w, outcome)
  \/ YearLoop(w)
  \/ \E ok \in BOOLEAN : YearPrep(w, ok)
  \/ \E loaded \in BOOLEAN : LoadPage(w, loaded)
  \/ \E found \in BOOLEAN, links \in PageLinks : FindLinks(w, found, links)
  \/ FileLoop(w)
  \/ FileCheck(w)
  \/ \E listed \in BOOLEAN, kept \in SUBSET (1..Len(temp_files)) :
       ClearStaging(w, listed, kept)
  \/ \E ok \in BOOLEAN : Trigger(w, ok)
  \/ \E listed \in BOOLEAN, examined \in BOOLEAN : Poll(w, listed, examined)
  \/ AfterWait(w)
  \/ \E moved \in BOOLEAN : Place(w, moved)
  \/ Except(w)
  \/ QuitDriver(w)
  \/ RemoveStaging(w)
  \/ Finish(w)

\* up to MaxFaultyRuns runs, with every failure the calls of the worker can meet
Next ==
  \/ \E selected \in SUBSET Years, confirmed \in BOOLEAN :
       start_download(selected, confirmed, MaxFaultyRuns)
  \/ cancel_download
  \/ cancel_set
  \/ cancel_status
  \/ drain_ui_queue
  \/ \E w \in Workers : WorkerStep(w)
  \/ \E k \in 1..Len(temp_files) : BrowserFinishes(k)

Spec == Init /\ [][Next]_vars

\* a step of worker w when no call raises: files still fail by timing out
QuietStep(w) ==
  \/ Setup(w, TRUE)
  \/ CreateDriver(w, "ready")
  \/ YearLoop(w)
  \/ YearPrep(w, TRUE)
  \/ LoadPage(w, TRUE)
  \/ \E links \in PageLinks : FindLinks(w, TRUE, links)
  \/ FileLoop(w)
  \/ FileCheck(w)
  \/ ClearStaging(w, TRUE, {})
  \/ Trigger(w, TRUE)
  \/ Poll(w, TRUE, TRUE)
  \/ AfterWait(w)
  \/ Place(w, TRUE)
  \/ QuitDriver(w)
  \/ RemoveStaging(w)
  \/ Finish(w)

\* up to MaxRuns runs, one after the other, when no call raises
NextRuns ==
  \/ \E selected \in SUBSET Years, confirmed \in BOOLEAN :
       start_download(selected, confirmed, MaxRuns)
  \/ cancel_download
  \/ cancel_set
  \/ cancel_status
  \/ drain_ui_queue
  \/ \E w \in Workers : QuietStep(w)
  \/ \E k \in 1..Len(temp_files) : BrowserFinishes(k)

SpecRuns == Init /\ [][NextRuns]_vars


(***************************************************************************)
(* The classifier applied to one name, as lines 900-901 apply it.          *)
(***************************************************************************)
InitNames(names) ==
  /\ raw_name \in names
  /\ filename = NoName
  /\ category = NoCategory
  /\ variant = NoName
  /\ variant_category = NoCategory
  /\ step = "raw"
  /\ InitNoSide
  /\ InitApp
  /\ final_files = {}

\* filename = sanitize_filename(raw_name)
SanitizeStep ==
  /\ step = "raw"
  /\ filename' = sanitize_filename(raw_name)
  /\ step' = "sanitized"
  /\ UNCHANGED <<raw_name, category, variant, variant_category>>
  /\ UNCHANGED <<appVars, run, worldVars, sideVars>>

\* category = categorize_file(filename)
CategorizeStep ==
  /\ step = "sanitized"
  /\ category' = categorize_file(filename)
  /\ step' = "categorized"
  /\ UNCHANGED <<raw_name, filename, variant, variant_category>>
  /\ UNCHANGED <<appVars, run, worldVars, sideVars>>

NextClassify == SanitizeStep \/ CategorizeStep

SpecClassify == InitNames(Names) /\ [][NextClassify]_vars

(***************************************************************************)
(* The sanitizer on names made of the characters it treats specially, and  *)
(* the sanitizer run again on its own result.                              *)
(***************************************************************************)
SanitizeTokens == { <<" ">>, <<"\t">>, <<".">>, <<"?">>, <<"*">>, <<"a">> }

SanitizeNames == Concatenations(SanitizeTokens, MaxTokens) \ { <<>> }

\* sanitize_filename(filename): the result of the first call is the
\* argument of the second
SanitizeAgain ==
  /\ step = "sanitized"
  /\ raw_name' = filename
  /\ filename' = sanitize_filename(filename)
  /\ step' = "resanitized"
  /\ UNCHANGED <<category, variant, variant_category>>
  /\ UNCHANGED <<appVars, run, worldVars, sideVars>>

NextSanitize == SanitizeStep \/ SanitizeAgain

SpecSanitize == InitNames(SanitizeNames) /\ [][NextSanitize]_vars

(***************************************************************************)
(* Two names that differ by one edit: the case of one letter, or one '-'   *)
(* or '_' more or less; categorize_file applied to both.                   *)
(***************************************************************************)
Separators == {"-", "_"}

ToggleCase(c) ==
  IF \E k \in 1..26 : AsciiUpper[k] = c
  THEN AsciiLower[CHOOSE k \in 1..26 : AsciiUpper[k] = c]
  ELSE IF \E k \in 1..26 : AsciiLower[k] = c
  THEN AsciiUpper[CHOOSE k \in 1..26 : AsciiLower[k] = c]
  ELSE c

VaryCase ==
  /\ step = "raw"
  /\ \E k \in 1..Len(raw_name) :
       /\ ToggleCase(raw_name[k]) # raw_name[k]
       /\ variant' = [raw_name EXCEPT ![k] = ToggleCase(raw_name[k])]
  /\ step' = "varied"
  /\ UNCHANGED <<raw_name, filename, category, variant_category>>
  /\ UNCHANGED <<appVars, run, worldVars, sideVars>>

VaryInsert ==
  /\ step = "raw"
  /\ \E k \in 0..Len(raw_name), sep \in Separators :
       variant' = SubSeq(raw_name, 1, k) \o <<sep>>
                    \o SubSeq(raw_name, k + 1, Len(raw_name))
  /\ step' = "varied"
  /\ UNCHANGED <<raw_name, filename, category, variant_category>>
  /\ UNCHANGED <<appVars, run, worldVars, sideVars>>

VaryDelete ==
  /\ step = "raw"
  /\ \E k \in 1..Len(raw_name) :
       /\ raw_name[k] \in Separators
       /\ variant' = SubSeq(raw_name, 1, k - 1)
                       \o SubSeq(raw_name, k + 1, Len(raw_name))
  /\ step' = "varied"
  /\ UNCHANGED <<raw_name, filename, category, variant_category>>
  /\ UNCHANGED <<appVars, run, worldVars, sideVars>>

CategorizeBoth ==
  /\ step = "varied"
  /\ category' = categorize_file(raw_name)
  /\ variant_category' = categorize_file(variant)
  /\ step' = "compared"
  /\ UNCHANGED <<raw_name, filename, variant>>
  /\ UNCHANGED <<appVars, run, worldVars, sideVars>>

NextVariants == VaryCase \/ VaryInsert \/ VaryDelete \/ CategorizeBoth

SpecVariants == InitNames(VariantNames) /\ [][NextVariants]_vars

(***************************************************************************)
(* Claims about the orchestrator.                                          *)
(***************************************************************************)
\* worker w leaves the step at pc
Leaves(w, pc) == run[w].pc = pc /\ run'[w].pc # pc

\* the threads that have been started and have not ended
ActiveWorkers == {w \in Workers : run[w].pc \notin {"not_started", "done", "died"}}

\* C1: once the cancel flag is set the worker issues no further
\* driver.get(file_url), whatever the interleaving of the two threads.
C1_NoTransferAfterCancel ==
  [][\A w \in Workers : Leaves(w, "trigger") => ~cancel_event]_vars

\* C2: every started run executes Finishing on every exit path: no thread
\* ends without it, and when no thread is left running no run is marked
\* active.
C2_EveryRunFinishes ==
  ActiveWorkers = {} => (~is_downloading /\ \A w \in Workers : run[w].pc # "died")

\* C3: a file that fails, by a watcher that returned no file or by a move
\* that failed, adds exactly one to `failed` and nothing to the other
\* counters, and the worker goes on: to the next file of the year, or past
\* the last file to the next year, unless cancellation was requested.
C3_FailedFileIsCountedAndPassed ==
  [][\A w \in Workers :
       LET r == run[w]
           s == run'[w]
       IN /\ Leaves(w, "place") =>
               /\ s.pc = "file_loop" /\ s.i = r.i + 1 /\ s.y = r.y
               /\ s.skipped = r.skipped /\ s.years_skipped = r.years_skipped
               /\ \/ /\ s.failed = r.failed + 1
                     /\ s.downloaded = r.downloaded
                     /\ final_files' = final_files
                  \/ /\ s.failed = r.failed
                     /\ s.downloaded = r.downloaded + 1
                     /\ final_path(TaskYear(r), TaskUrl(r)) \in final_files'
               /\ r.downloaded_file = None => s.failed = r.failed + 1
          /\ (Leaves(w, "file_loop") /\ ~cancel_event) =>
               /\ Counters(s) = Counters(r)
               /\ IF r.i <= Len(r.excel_urls)
                  THEN s.pc = "file_check" /\ s.i = r.i /\ s.y = r.y
                  ELSE s.pc = "year_loop" /\ s.y = r.y + 1]_vars

\* the first file of a year timed out, its transfer still unfinished in
\* the staging directory, and the worker is at the second file
C3_Witness ==
  \E w \in Workers :
    /\ run[w].pc = "file_check" /\ run[w].i = 2
    /\ run[w].failed = 1 /\ run[w].downloaded = 0 /\ run[w].skipped = 0
    /\ run[w].downloaded_file = None
    /\ \E k \in 1..Len(temp_files) :
         temp_files[k] = StagedFile("crdownload", <<w, TaskYear(run[w]), 1>>)

\* C4: a file whose final path exists is skipped: no transfer is started,
\* the staging directory is not cleared, `skipped` grows by one and
\* `downloaded` and `failed` stay.
C4_ExistingFileIsSkipped ==
  [][\A w \in Workers :
       LET r == run[w]
           s == run'[w]
       IN (Leaves(w, "file_check")
             /\ final_path(TaskYear(r), TaskUrl(r)) \in final_files) =>
            /\ s.skipped = r.skipped + 1
            /\ s.downloaded = r.downloaded /\ s.failed = r.failed
            /\ s.pc = "file_loop" /\ s.i = r.i + 1
            /\ UNCHANGED <<temp_files, temp_dir_exists, final_files>>]_vars

\* a later run has skipped a file an earlier run left at its final path
C4_Witness ==
  \E w \in Workers :
    /\ run[w].skipped > 0
    /\ run[w].pc = "file_loop"
    /\ final_path(TaskYear(run[w]), run[w].excel_urls[run[w].i - 1]) \in final_files

C6_SessionReleased ==
  \A w \in Workers : run[w].pc \in {"done", "died"} => w \notin sessions

\* C7: the terminal summary reports "cancelled" if and only if the cancel
\* flag is set when the summary is emitted.
C7_SummaryTellsTheFlag ==
  [][\A w \in Workers :
       Leaves(w, "reset") => (run[w].cancelled <=> cancel_event)]_vars

\* C8: after a cancellation request the worker loads no further year page
\* and starts no further file.
C8_NoNewWorkAfterCancel ==
  [][\A w \in Workers :
       (\/ Leaves(w, "year_prep") \/ Leaves(w, "load_page")
        \/ Leaves(w, "file_check") \/ Leaves(w, "clear") \/ Leaves(w, "trigger"))
         => ~cancel_event]_vars

\* the finished and the in-progress files of the staging directory
Finished == {k \in 1..Len(temp_files) : temp_files[k].kind = "excel"}

InProgress == {k \in 1..Len(temp_files) : temp_files[k].kind = "crdownload"}

\* C16: the watcher returns a file only from a poll at which the cancel
\* flag was clear, the time was not up and the staging directory held a
\* finished file and no in-progress file, and then the finished file
\* modified last; on a timeout or a cancellation seen at a poll, a
\* finished file present or not, it returns no file.
C16_WatcherReturnsNewestFinished ==
  [][\A w \in Workers :
       LET r == run[w]
           s == run'[w]
       IN /\ (Leaves(w, "wait") /\ s.pc = "after_wait" /\ s.downloaded_file # None) =>
               /\ ~cancel_event
               /\ r.polls_left > 0
               /\ Finished # {} /\ InProgress = {}
               /\ \E k \in Finished :
                    /\ s.downloaded_file = temp_files[k]
                    /\ \A j \in Finished : j <= k
          /\ (Leaves(w, "wait") /\ (cancel_event \/ r.polls_left = 0)) =>
               (s.pc = "after_wait" /\ s.downloaded_file = None)]_vars

\* the watcher has returned the newer of two finished files
C16_Witness ==
  \E w \in Workers :
    /\ run[w].pc = "after_wait"
    /\ run[w].downloaded_file # None
    /\ Cardinality(Finished) = 2
    /\ InProgress = {}
    /\ run[w].downloaded_file = temp_files[Len(temp_files)]
    /\ run[w].downloaded_file # temp_files[1]

\* C17: a read error at a filesystem access of a poll never makes the
\* watcher raise: the watcher sleeps and polls again, or returns.
C17_WatcherNeverRaises ==
  [][\A w \in Workers :
       run[w].pc = "wait" => run'[w].pc \in {"wait", "after_wait"}]_vars

\* C18: a year whose page fails to load is not fatal: `years_skipped`
\* grows by exactly one, a status event is put on the queue, no file task
\* of that year is started, the other counters stay, and the worker goes
\* on with the next selected year.
C18_FailedPageSkipsTheYear ==
  [][\A w \in Workers :
       LET r == run[w]
           s == run'[w]
       IN /\ (Leaves(w, "load_page") /\ s.pc # "find_links") =>
               /\ s.years_skipped = r.years_skipped + 1
               /\ s.downloaded = r.downloaded /\ s.skipped = r.skipped
               /\ s.failed = r.failed
               /\ Len(ui_queue') = Len(ui_queue) + 1
               /\ ui_queue'[Len(ui_queue')].kind = "status"
               /\ SubSeq(ui_queue', 1, Len(ui_queue)) = ui_queue
               /\ s.pc = "year_loop" /\ s.y = r.y + 1
               /\ s.excel_urls = r.excel_urls /\ s.i = r.i
               /\ UNCHANGED <<temp_files, final_files>>
          /\ (Leaves(w, "year_loop") /\ ~cancel_event /\ r.y <= Len(r.years)) =>
               (s.pc = "year_prep" /\ s.y = r.y /\ Counters(s) = Counters(r))]_vars

\* the page of the first year failed to load and the worker is at the
\* second year, the failure reported on the queue or on the label
C18_Witness ==
  \E w \in Workers :
    /\ run[w].pc = "year_prep" /\ run[w].y = 2
    /\ Counters(run[w]) = <<0, 0, 0, 1>>
    /\ run[w].excel_urls = <<>>
    /\ \/ status_label = "Page failed to load"
       \/ \E k \in 1..Len(ui_queue) : ui_queue[k].msg = "Page failed to load"

\* the worker is inside the year loop, at a year of its list
AtYear(r) ==
  r.pc \in {"year_prep", "load_page", "find_links", "file_loop", "file_check",
            "clear", "trigger", "wait", "after_wait", "place"}

\* the years passed to the thread
Requested(r) == {r.years[k] : k \in 1..Len(r.years)}

\* C19: the requested years are gone through in ascending order, whatever
\* the order they were passed in, one after the other; file tasks are run
\* only for a year whose page gave documents, and every other requested
\* year the worker passes adds exactly one to `years_skipped`.
C19_YearsAscendingAndCounted ==
  [][\A w \in Workers :
       LET r == run[w]
           s == run'[w]
       IN /\ AtYear(s) =>
               /\ TaskYear(s) \in Requested(s)
               /\ Cardinality({x \in Requested(s) : x < TaskYear(s)}) = s.y - 1
          /\ (AtYear(r) /\ s.pc = "year_loop") =>
               /\ s.y = r.y + 1
               /\ IF r.pc = "file_loop"
                  THEN /\ r.excel_urls # <<>> /\ r.i = Len(r.excel_urls) + 1
                       /\ s.years_skipped = r.years_skipped
                  ELSE /\ r.pc \in {"load_page", "find_links"}
                       /\ s.years_skipped = r.years_skipped + 1
                       /\ s.excel_urls = r.excel_urls
                       /\ Counters(s)[1] = Counters(r)[1]
                       /\ Counters(s)[2] = Counters(r)[2]
                       /\ Counters(s)[3] = Counters(r)[3]
          /\ (AtYear(r) /\ s.pc # "year_loop" /\ s.pc # "done") =>
               (s.y = r.y /\ s.years_skipped = r.years_skipped)
          /\ (r.pc = "find_links" /\ s.pc = "file_loop") =>
               (s.excel_urls # <<>> /\ s.i = 1)]_vars

\* years 2 and 1 were requested, in that order; the worker went through
\* both, year 1 without data and year 2 with a document it placed
C19_Witness ==
  \E w \in Workers :
    /\ run[w].years = <<2, 1>>
    /\ run[w].pc = "finally" /\ ~run[w].cancelled
    /\ run[w].y = 3
    /\ Counters(run[w]) = <<1, 0, 0, 1>>
    /\ final_files = {final_path(2, 1)}

\* the positions in events of the events of the given kind
OfKind(events, kind) == {k \in 1..Len(events) : events[k].kind = kind}

\* the last event of the kind, when there is one
LastOfKind(events, kind) ==
  events[CHOOSE k \in OfKind(events, kind) : \A j \in OfKind(events, kind) : j <= k]

\* C20: events reach the widgets in the order they were put on the queue,
\* none lost and none reordered: a step only appends to the queue or takes
\* events from its front, and the widgets then show what the last event
\* taken of each kind says; and the worker never waits for the UI thread:
\* whatever is undrained, the put of an event can be done at once.
C20_EventsInOrderWorkerNeverWaits ==
  /\ [](ENABLED Enqueue(<<StatusEvent("Downloading", "")>>))
  /\ [][ui_queue' # ui_queue =>
         \/ /\ Len(ui_queue') > Len(ui_queue)
            /\ SubSeq(ui_queue', 1, Len(ui_queue)) = ui_queue
            /\ UNCHANGED <<status_label, download_btn, cancel_btn>>
         \/ \E n \in 1..Len(ui_queue) :
              LET taken == SubSeq(ui_queue, 1, n)
              IN /\ ui_queue' = SubSeq(ui_queue, n + 1, Len(ui_queue))
                 /\ status_label' =
                      IF OfKind(taken, "status") = {} THEN status_label
                      ELSE LastOfKind(taken, "status").msg
                 /\ cancel_btn' =
                      IF OfKind(taken, "buttons") = {} THEN cancel_btn
                      ELSE LastOfKind(taken, "buttons").detail
                 /\ download_btn' =
                      IF OfKind(taken, "buttons") = {} THEN download_btn
                      ELSE ~LastOfKind(taken, "buttons").detail]_vars

\* the worker has gone on with four events undrained, two of them status
\* events with different messages
C20_Witness ==
  /\ ActiveWorkers # {}
  /\ Len(ui_queue) >= 4
  /\ \E j, k \in OfKind(ui_queue, "status") : ui_queue[j].msg # ui_queue[k].msg

(***************************************************************************)
(* Claims about the classifier.                                            *)
(***************************************************************************)
IsRawPiMarked(name) == any_in(RawPiTags, str_lower(name))

Normalized(name) == str_remove(str_remove(str_lower(name), "-"), "_")

\* the name holds a raw marker, or its normalized form a compound PI token
HasPiMarker(name) ==
  \/ any_in(RawPiTags, str_lower(name))
  \/ any_in(NormPiTags, Normalized(name))

\* the positions in all_patterns of the patterns found in the name
PatternsIn(name) ==
  {k \in 1..Len(all_patterns) : str_in(all_patterns[k].pattern, Normalized(name))}

\* C11: a filename that matches a PI marker and also holds a pattern of
\* another category, of any length, is classified 06_PI_Rankings.
C11_PiMarkerWins ==
  (step = "categorized" /\ HasPiMarker(filename) /\ PatternsIn(filename) # {})
     => category = PI_RANKINGS

\* a name with a compound PI token and no raw marker, holding a pattern
\* of another category, has been classified
C11_Witness ==
  /\ step = "categorized"
  /\ PatternsIn(filename) # {}
  /\ any_in(NormPiTags, Normalized(filename))
  /\ ~any_in(RawPiTags, str_lower(filename))
  /\ category = PI_RANKINGS

\* the patterns of every category but 06_PI_Rankings, in table order
table_patterns == UnsortedPatterns(1)

\* the positions in table_patterns of the patterns found in the name
TableHits(name) ==
  {k \in 1..Len(table_patterns) : str_in(table_patterns[k].pattern, Normalized(name))}

\* the category owning the longest pattern found in the name, the first
\* in table order among the longest
LongestMatch(name) ==
  LET hits == TableHits(name)
      best == CHOOSE k \in hits :
                \A j \in hits :
                   \/ Len(table_patterns[j].pattern) < Len(table_patterns[k].pattern)
                   \/ /\ Len(table_patterns[j].pattern) = Len(table_patterns[k].pattern)
                      /\ k <= j
  IN table_patterns[best].category

\* C12: a filename that does not take the PI path gets the category owning
\* a longest of the non-PI patterns found in its normalized form, table
\* order deciding among equally long ones, and 09_Uncategorized if and
\* only if no such pattern is found.
C12_LongestMatchDecides ==
  (step = "categorized" /\ ~HasPiMarker(filename)) =>
     /\ TableHits(filename) # {} => category = LongestMatch(filename)
     /\ TableHits(filename) = {} <=> category = UNCATEGORIZED

\* a name holding two equally long patterns of different categories, and
\* a shorter one of an earlier category, has been classified
C12_Witness ==
  /\ step = "categorized"
  /\ ~HasPiMarker(filename)
  /\ TableHits(filename) # {}
  /\ category = LongestMatch(filename)
  /\ \E j, k \in TableHits(filename) :
       /\ Len(table_patterns[j].pattern) = Len(table_patterns[k].pattern)
       /\ table_patterns[j].category # table_patterns[k].category
  /\ \E j, k \in TableHits(filename) :
       /\ j < k
       /\ Len(table_patterns[j].pattern) < Len(table_patterns[k].pattern)
       /\ table_patterns[j].category # table_patterns[k].category

\* C13: sanitize_filename is idempotent: applied to its own result it
\* returns that result.
C13_SanitizeIsIdempotent ==
  step = "resanitized" => filename = raw_name

\* the name holds a character that is neither reserved nor whitespace
HasPlainChar(name) ==
  \E k \in 1..Len(name) :
    /\ name[k] \notin Whitespace
    /\ \A j \in 1..Len(InvalidChars) : name[k] # InvalidChars[j]

\* C14: sanitize_filename returns no empty string for an input that holds
\* a character neither reserved nor whitespace.
C14_SanitizedIsNotEmpty ==
  (step = "sanitized" /\ HasPlainChar(raw_name)) => filename # <<>>

\* s without the characters of chars at its end
RECURSIVE strip_trailing(_, _)
strip_trailing(s, chars) ==
  IF s # <<>> /\ s[Len(s)] \in chars
  THEN strip_trailing(SubSeq(s, 1, Len(s) - 1), chars)
  ELSE s

\* the reference pipeline: cut at the first '?', replace the reserved
\* characters, trim surrounding whitespace, remove trailing '.' only
ReferenceSanitize(name) ==
  strip_trailing(str_strip(ReplaceInvalid(str_before(name, "?"), 1), Whitespace), {"."})

\* C15: sanitize_filename equals the reference pipeline, so the leading
\* '.' characters of a name are kept.
C15_SanitizeIsReference ==
  step = "sanitized" => filename = ReferenceSanitize(raw_name)

BiochemistryPi ==
  <<"B","I","O","C","H","E","M","I","S","T","R","Y","-","P","I",".","x","l","s","x">>

\* C10: "BIOCHEMISTRY-PI.xlsx" is sanitized to itself and classified as
\* 06_PI_Rankings, and so is every '<department>-PI' filename whose
\* department token is a pattern of 04_Basic_Science or 05_Clinical_Depts.
C10_DepartmentPiIsPiRanking ==
  /\ (step = "categorized" /\ raw_name = BiochemistryPi)
        => (filename = BiochemistryPi /\ category = PI_RANKINGS)
  /\ (step = "categorized"
        /\ \E k \in 1..Len(filename) - 3 :
             /\ SubSeq(str_lower(filename), k, k + 3) = <<"-","p","i",".">>
             /\ \E c \in {4, 5} : \E j \in 1..Len(FILE_CATEGORIES[c].patterns) :
                  FILE_CATEGORIES[c].patterns[j] = SubSeq(str_lower(filename), 1, k - 1))
        => category = PI_RANKINGS

ErrorReports(queue) ==
  Cardinality({k \in 1..Len(queue) : queue[k] = DialogEvent("error")})

\* C22: the error report of a fatal error is produced after the cleanup:
\* a step that enqueues it is taken when the thread's session has been
\* released, the staging directory removed and the summary emitted, which
\* is when the run is no longer marked active.
C22_ErrorReportedAfterCleanup ==
  [][\A w \in Workers :
       (run'[w] # run[w] /\ ErrorReports(ui_queue') > ErrorReports(ui_queue)) =>
          /\ w \notin sessions
          /\ ~temp_dir_exists
          /\ ~is_downloading]_vars

\* the threads between line 797, which creates the staging directory, and
\* the return of line 972, which removes it
UsesStaging == {w \in ActiveWorkers : run[w].pc # "reset"}

\* C23: at most one worker thread is between creating the staging
\* directory and the end of its removal, also when the next run is
\* started as soon as the run before it is no longer marked active.
C23_OneRunUsesStaging ==
  Cardinality(UsesStaging) <= 1

\* the second run uses the staging directory, started before the UI thread
\* had applied the events that ended the first
C23_Witness ==
  /\ started = 2
  /\ 2 \in UsesStaging
  /\ temp_dir_exists
  /\ \E k \in 1..Len(ui_queue) : ui_queue[k] = ButtonsEvent(FALSE)

(***************************************************************************)
(* The link collection of one year's page, lines 853-876, on the hrefs of  *)
(* the page's anchors.                                                     *)
(***************************************************************************)
\* s.endswith(suffix)
ends_with(s, suffix) ==
  /\ Len(s) >= Len(suffix)
  /\ SubSeq(s, Len(s) - Len(suffix) + 1, Len(s)) = suffix

XLS == <<".", "x", "l", "s">>

XLSX == <<".", "x", "l", "s", "x">>

\* the selector list of lines 855-857: [href$=v] is "ends with v" and
\* [href*=v] is "contains v", both comparing the characters as they are
CSS_SELECTOR ==
  << [op |-> "$=", value |-> XLS],
     [op |-> "$=", value |-> XLSX],
     [op |-> "$=", value |-> <<".", "X", "L", "S">>],
     [op |-> "$=", value |-> <<".", "X", "L", "S", "X">>],
     [op |-> "*=", value |-> XLS \o <<"?">>],
     [op |-> "*=", value |-> XLSX \o <<"?">>] >>

Matches(href, selector) ==
  IF selector.op = "$=" THEN ends_with(href, selector.value)
  ELSE str_in(selector.value, href)

\* driver.find_elements(By.CSS_SELECTOR, ...): the anchors one of the
\* selectors matches, in document order
find_elements(anchors) ==
  LET Selected(href) == \E k \in 1..Len(CSS_SELECTOR) : Matches(href, CSS_SELECTOR[k])
  IN SelectSeq(anchors, Selected)

\* line 868: any(ext in href.lower() for ext in [".xls", ".xlsx"])
IsExcelHref(href) == any_in(<<XLS, XLSX>>, str_lower(href))

\* lines 865-869: the stripped hrefs that pass the test of line 868
filter_links(links) ==
  SelectSeq([k \in 1..Len(links) |-> str_strip(links[k], Whitespace)], IsExcelHref)

\* the pages: up to MaxLinks anchors
MaxLinks == 3

LinkStems == { <<"a">>, <<"b">> }

LinkEnds ==
  { XLS, XLSX, <<".", "X", "L", "S">>, <<".", "X", "L", "S", "X">>,
    <<".", "X", "l", "s">>, <<".", "p", "d", "f">>,
    XLS \o <<"?", "v">>, <<".", "X", "L", "S", "?", "v">> }

Hrefs == {s \o e : s \in LinkStems, e \in LinkEnds}

Pages == UNION {[1..n -> Hrefs] : n \in 0..MaxLinks}

InitLinks ==
  /\ page \in Pages
  /\ listing = [pc |-> "find", links |-> <<>>, excel_urls |-> <<>>]
  /\ InitNoName
  /\ InitNoProbe
  /\ InitApp
  /\ final_files = {}

\* lines 853-858
FindElements ==
  /\ listing.pc = "find"
  /\ listing' = [listing EXCEPT !.links = find_elements(page), !.pc = "filter"]
  /\ UNCHANGED <<page, nameVars, probeVars, appVars, run, worldVars>>

\* lines 865-869
FilterLinks ==
  /\ listing.pc = "filter"
  /\ listing' = [listing EXCEPT !.excel_urls = filter_links(listing.links),
                                !.pc = "dedupe"]
  /\ UNCHANGED <<page, nameVars, probeVars, appVars, run, worldVars>>

\* line 876
Deduplicate ==
  /\ listing.pc = "dedupe"
  /\ listing' = [listing EXCEPT !.excel_urls = dict_fromkeys(listing.excel_urls),
                                !.pc = "done"]
  /\ UNCHANGED <<page, nameVars, probeVars, appVars, run, worldVars>>

NextLinks == FindElements \/ FilterLinks \/ Deduplicate

SpecLinks == InitLinks /\ [][NextLinks]_vars

\* the reference filter: the href ends in .xls or .xlsx, or holds one of
\* them right before a '?', the letters compared in any case
HasDocumentExtension(href) ==
  \/ ends_with(str_lower(href), XLS)
  \/ ends_with(str_lower(href), XLSX)
  \/ str_in(XLS \o <<"?">>, str_lower(href))
  \/ str_in(XLSX \o <<"?">>, str_lower(href))

\* the reference operator: filter, then first occurrences in order
ReferenceTaskList(anchors) == dict_fromkeys(SelectSeq(anchors, HasDocumentExtension))

\* C24: the task list of a page is the reference 'filter then
\* de-duplicate' of its anchors: the hrefs with a document extension in
\* any letter case, first occurrences only, in document order.
C24_TaskListIsFilterThenDeduplicate ==
  listing.pc = "done" => listing.excel_urls = ReferenceTaskList(page)

(***************************************************************************)
(* detect_available_years, lines 260-317: one HEAD per year, from the      *)
(* current year down to 2006, a GET when the HEAD is refused.              *)
(***************************************************************************)
\* list(range(first, stop, -1))
range_down(first, stop) == [k \in 1..(first - stop) |-> first - k + 1]

\* sorted(years) without reverse=True
RECURSIVE sorted_forward(_)
sorted_forward(years) ==
  IF years = {} THEN <<>>
  ELSE LET least == CHOOSE y \in years : \A z \in years : y <= z
       IN <<least>> \o sorted_forward(years \ {least})

\* sorted(years, reverse=True), of a set
RECURSIVE sorted_reverse(_)
sorted_reverse(years) ==
  IF years = {} THEN <<>>
  ELSE LET greatest == CHOOSE y \in years : \A z \in years : z <= y
       IN <<greatest>> \o sorted_reverse(years \ {greatest})

\* what a request comes to: a response with a status, or RequestException
Response(status_code) == [raised |-> FALSE, status_code |-> status_code]

RequestException == [raised |-> TRUE, status_code |-> 0]

HeadAnswers ==
  {Response(200), Response(403), Response(404), Response(405), RequestException}

GetAnswers == {Response(200), Response(403), Response(404), RequestException}

\* the clock is at most MaxProbed years past 2005
MaxProbed == 3

ProbedYears == 2006..(2005 + MaxProbed)

\* a retry for 403 only
RetriesOn403(status_code) == status_code = 403

\* line 294: response.status_code in (403, 405)
Retries(status_code) == status_code \in {403, 405}

\* line 283: the loop takes the next year of range(current_year, 2005, -1)
NextYear(p) ==
  IF p.year - 1 > 2005 THEN [p EXCEPT !.year = @ - 1, !.pc = "head"]
  ELSE [p EXCEPT !.pc = "return"]

InitDetect ==
  /\ site \in [ProbedYears -> [head : HeadAnswers, get : GetAnswers]]
  /\ \E current_year \in 2005..(2005 + MaxProbed) :
       probe = [pc |-> IF current_year > 2005 THEN "head" ELSE "return",
                current_year |-> current_year, year |-> current_year,
                years |-> {}, sent |-> <<>>, result |-> <<>>]
  /\ InitNoName
  /\ InitNoListing
  /\ InitApp
  /\ final_files = {}

\* lines 285-299 and 304-307: requests.head and what follows its answer
requests_head ==
  /\ probe.pc = "head"
  /\ LET response == site[probe.year].head
         p == [probe EXCEPT !.sent = Append(@, <<"HEAD", probe.year>>)]
     IN probe' =
          IF response.raised THEN NextYear(p)
          ELSE IF response.status_code = 200
               THEN NextYear([p EXCEPT !.years = @ \cup {probe.year}])
          ELSE IF Retries(response.status_code) THEN [p EXCEPT !.pc = "get"]
          ELSE NextYear(p)
  /\ UNCHANGED <<site, nameVars, linkVars, appVars, run, worldVars>>

\* lines 296-302 and 304-307: requests.get(..., stream=True)
requests_get ==
  /\ probe.pc = "get"
  /\ LET response == site[probe.year].get
         p == [probe EXCEPT !.sent = Append(@, <<"GET", probe.year>>)]
     IN probe' =
          IF response.raised THEN NextYear(p)
          ELSE IF response.status_code = 200
               THEN NextYear([p EXCEPT !.years = @ \cup {probe.year}])
          ELSE NextYear(p)
  /\ UNCHANGED <<site, nameVars, linkVars, appVars, run, worldVars>>

\* lines 309-317
Return ==
  /\ probe.pc = "return"
  /\ probe' = [probe EXCEPT
                 !.result = IF probe.years # {} THEN sorted_reverse(probe.years)
                            ELSE range_down(2024, 2005),
                 !.pc = "done"]
  /\ UNCHANGED <<site, nameVars, linkVars, appVars, run, worldVars>>

NextDetect == requests_head \/ requests_get \/ Return

SpecDetect == InitDetect /\ [][NextDetect]_vars

\* how many times the request was issued
Sent(method, year) ==
  Cardinality({k \in 1..Len(probe.sent) : probe.sent[k] = <<method, year>>})

\* C25: when the loop has ended, every year from the current one down to
\* 2006 got exactly one HEAD, whatever the probes of the years before it
\* came to; it got one GET if its HEAD was answered 403 or 405 and none
\* otherwise; and it is among the detected years exactly if its HEAD, or
\* the GET that was issued, was answered 200.
C25_DetectedIffFinalStatus200 ==
  probe.pc \in {"return", "done"} =>
    /\ probe.years \subseteq 2006..probe.current_year
    /\ \A y \in 2006..probe.current_year :
         /\ Sent("HEAD", y) = 1
         /\ Sent("GET", y) =
              IF ~site[y].head.raised /\ site[y].head.status_code \in {403, 405}
              THEN 1 ELSE 0
         /\ y \in probe.years <=>
              \/ site[y].head = Response(200)
              \/ Sent("GET", y) = 1 /\ site[y].get = Response(200)

\* the probe of the newest year raised, the year before it was refused the
\* HEAD with 405 and detected by the GET, the oldest year was not found
C25_Witness ==
  /\ probe.pc = "done"
  /\ probe.current_year = 2008
  /\ site[2008].head = RequestException
  /\ site[2007].head = Response(405)
  /\ site[2006].head = Response(404)
  /\ probe.years = {2007}
  /\ probe.result = <<2007>>

\* C26: the result is the detected years, each once, in strictly
\* descending order, when a year was detected, and the years 2024 down to
\* 2006 otherwise; it is never empty, strictly descending, and holds no
\* year below 2006.
C26_ResultDescendingOrFallback ==
  probe.pc = "done" =>
    LET result == probe.result
    IN /\ probe.years # {} =>
            /\ {result[k] : k \in 1..Len(result)} = probe.years
            /\ Len(result) = Cardinality(probe.years)
       /\ probe.years = {} =>
            /\ Len(result) = 19
            /\ \A k \in 1..19 : result[k] = 2025 - k
       /\ result # <<>>
       /\ \A k \in 1..(Len(result) - 1) : result[k] > result[k + 1]
       /\ \A k \in 1..Len(result) : result[k] >= 2006

\* three years were detected, out of the order they are returned in
C26_Witness ==
  /\ probe.pc = "done"
  /\ probe.years = {2006, 2007, 2008}
  /\ site[2007].head = Response(403)
  /\ probe.result = <<2008, 2007, 2006>>

\* C27: a file moved to the final path of a task was written into the
\* staging directory by the transfer of that task: the transfer of a file
\* that timed out and finishes late is never placed as the next file.
C27_PlacedFileIsTheTasksOwn ==
  [][\A w \in Workers :
       LET r == run[w]
       IN (Leaves(w, "place") /\ run'[w].downloaded = r.downloaded + 1) =>
            r.downloaded_file.task = <<w, TaskYear(r), TaskUrl(r)>>]_vars

\* the steps of one file task, from the final path to the move
TaskSteps == {"file_check", "clear", "trigger", "wait", "after_wait", "place"}

\* downloaded + skipped + failed
Resolved(r) == r.downloaded + r.skipped + r.failed

C29_NoCancellingAfterTerminalStatus ==
  [][PendingCancels' > PendingCancels => is_downloading]_vars

\* the labels of the table
TableLabels == {FILE_CATEGORIES[c].category : c \in 1..Len(FILE_CATEGORIES)}

\* the name holds one of the patterns the table lists under 06_PI_Rankings
HoldsPiTablePattern(name) ==
  \E c \in 1..Len(FILE_CATEGORIES) :
    /\ FILE_CATEGORIES[c].category = PI_RANKINGS
    /\ \E k \in 1..Len(FILE_CATEGORIES[c].patterns) :
         str_in(FILE_CATEGORIES[c].patterns[k], Normalized(name))

====
